---- MODULE Spec2Model ----
(***************************************************************************)
(* Model of run_analysis.py: the per-paper pipeline (parse_pdf,            *)
(* analyze_paper, process_papers) and the pairwise comparison matrix       *)
(* (generate_cross_comparison_matrix), with the PDF library, the language  *)
(* model and the file system as nondeterministic collaborators.            *)
(***************************************************************************)
EXTENDS Integers, Sequences, FiniteSets, TLC

\* ------------------------------------------------------------------ bounds
MaxPdfs == 2      \* PDFs in the input folder
MaxPages == 1     \* pages of one PDF
MaxStrLen == 3    \* characters of one other_details string
MaxEntries == 2   \* entries of an other_details list
MaxChars == 4     \* characters of all entries of an other_details list

\* ----------------------------------------------------------------- strings
\* A Python str is a sequence of characters; "U+2022" is the bullet character.
Chars == {"-", " ", "\t", "U+2022", "a"}

\* str.strip() without argument strips whitespace.
Whitespace == {" ", "\t", "\n"}

\* the argument of d.strip("- ")
DashSpace == {"-", " "}

RECURSIVE lstrip(_, _)
lstrip(s, chars) ==
    IF s # <<>> /\ Head(s) \in chars THEN lstrip(Tail(s), chars) ELSE s

RECURSIVE rstrip(_, _)
rstrip(s, chars) ==
    IF s # <<>> /\ s[Len(s)] \in chars
    THEN rstrip(SubSeq(s, 1, Len(s) - 1), chars)
    ELSE s

\* str.strip(chars): characters of chars removed from both ends.
strip(s, chars) == rstrip(lstrip(s, chars), chars)

\* sep.join(list)
RECURSIVE join(_, _)
join(sep, list) ==
    IF list = <<>> THEN <<>>
    ELSE IF Len(list) = 1 THEN list[1]
    ELSE list[1] \o sep \o join(sep, Tail(list))

\* StripEntry with only the leading characters stripped (lstrip for strip).
StripEntryLeading(d) == lstrip(lstrip(d, DashSpace), Whitespace)

\* d.strip("- ").strip() of line 117
StripEntry(d) == strip(strip(d, DashSpace), Whitespace)

\* ------------------------------------------------------------- JSON values
\* A field of a JSON object: a string (t = "str", s) or a list (t = "list",
\* items; an item that is no string has isstr = FALSE).
StrField(s) == [t |-> "str", s |-> s, items |-> <<>>]
ListField(items) == [t |-> "list", s |-> <<>>, items |-> items]
StrItem(s) == [isstr |-> TRUE, s |-> s]
OtherItem == [isstr |-> FALSE, s |-> <<>>]

EmptyObj == [key \in {} |-> StrField(<<>>)]

\* A decoded JSON value. An object carries its fields; of an array, a string
\* or a number the model keeps what the code looks at: its length (or value)
\* and whether `"other_details" in value` is true of it.
JsonObject(obj) == [t |-> "object", obj |-> obj, len |-> 0, has_od |-> FALSE]
JsonArray(n, od) == [t |-> "array", obj |-> EmptyObj, len |-> n, has_od |-> od]
JsonString(n, od) == [t |-> "string", obj |-> EmptyObj, len |-> n, has_od |-> od]
JsonNumber(n) == [t |-> "number", obj |-> EmptyObj, len |-> n, has_od |-> FALSE]
JsonAtom(name) == [t |-> name, obj |-> EmptyObj, len |-> 0, has_od |-> FALSE]

\* Python's None, the failure signal of analyze_paper
None == JsonAtom("None")

\* What the model call of analyze_paper gives: an exception, a text that
\* json.loads rejects, or a text that decodes to json.
ApiError == [kind |-> "api_error", json |-> None]
NotJson == [kind |-> "not_json", json |-> None]
Decoded(v) == [kind |-> "json", json |-> v]
NoCall == [kind |-> "no_call", json |-> None]

Bullet(s) == <<"U+2022", " ">> \o s
TitleOnly == [key \in {"title"} |-> StrField(<<"a">>)]
WithDetails(od) ==
    [key \in {"title", "other_details"} |->
        IF key = "title" THEN StrField(<<"a">>) ELSE od]

\* The model responses of the pipeline runs: every shape json.loads can give.
JsonSamples ==
    { JsonObject(WithDetails(StrField(join(<<"\n">>, <<Bullet(<<"a">>), Bullet(<<"a">>)>>)))),
      JsonObject(WithDetails(ListField(<<StrItem(Bullet(<<"a">>)), StrItem(Bullet(<<"a">>))>>))),
      JsonObject(WithDetails(ListField(<<StrItem(<<"a">>), OtherItem>>))),
      JsonObject(TitleOnly),
      JsonObject([key \in {"title", "paper_name"} |-> StrField(<<"a">>)]),
      JsonObject(EmptyObj),
      JsonArray(0, FALSE), JsonArray(1, FALSE), JsonArray(1, TRUE),
      JsonString(0, FALSE), JsonString(1, FALSE), JsonString(13, TRUE),
      JsonNumber(0), JsonNumber(7),
      JsonAtom("true"), JsonAtom("false"), JsonAtom("null") }

Responses == {ApiError, NotJson} \cup {Decoded(v) : v \in JsonSamples}

\* Python truthiness of what analyze_paper returned (`if analysis:`)
Truthy(v) ==
    CASE v.t = "object" -> DOMAIN v.obj # {}
      [] v.t \in {"array", "string"} -> v.len > 0
      [] v.t = "number" -> v.len # 0
      [] v.t = "true" -> TRUE
      [] OTHER -> FALSE

\* Lines 116-117: a list other_details becomes its stripped entries joined
\* by newlines; an entry that is no str raises AttributeError (None).
PostProcess(obj) ==
    IF "other_details" \in DOMAIN obj /\ obj["other_details"].t = "list"
    THEN LET items == obj["other_details"].items IN
         IF \A x \in 1..Len(items) : items[x].isstr
         THEN JsonObject([key \in DOMAIN obj |->
                 IF key = "other_details"
                 THEN StrField(join(<<"\n">>,
                         [x \in 1..Len(items) |-> StripEntry(items[x].s)]))
                 ELSE obj[key]])
         ELSE None
    ELSE JsonObject(obj)

\* analyze_paper, from the model's response to the returned value.
analyze_paper(resp) ==
    IF resp.kind # "json" THEN None
    ELSE LET extracted == resp.json IN
         CASE extracted.t = "object" -> PostProcess(extracted.obj)
           [] extracted.t \in {"array", "string"} ->
                \* `"other_details" in extracted`, then extracted["other_details"]
                \* raises TypeError
                IF extracted.has_od THEN None ELSE extracted
           [] OTHER -> None   \* `in` on a number, bool or None raises TypeError

\* ------------------------------------------------------------------- PDFs
PageTexts == {"", "text"}

\* A PDF as pymupdf sees it: unreadable, or its pages' texts.
Pages == UNION {[1..n -> PageTexts] : n \in 0..MaxPages}
Docs == {[readable |-> FALSE, pages |-> <<>>]} \cup
        {[readable |-> TRUE, pages |-> p] : p \in Pages}

\* parse_pdf: the text with a page marker before each page's text; "" when
\* the PDF cannot be opened or the text file cannot be written.
parse_pdf(doc, can_save) ==
    IF doc.readable /\ can_save
    THEN [p \in 1..Len(doc.pages) |-> [page |-> p, text |-> doc.pages[p]]]
    ELSE <<>>

\* The skip test with the `continue` of line 199 never taken.
NeverEmptyText(text) == FALSE

\* `not text`: the concatenation is empty only without any page marker.
IsEmptyText(text) == Len(text) = 0

\* What the PDF holds: "unreadable", "no_pages", "blank" (pages, all of them
\* without text) or "has_text".
DocKind(doc) ==
    IF ~doc.readable THEN "unreadable"
    ELSE IF doc.pages = <<>> THEN "no_pages"
    ELSE IF \A p \in 1..Len(doc.pages) : doc.pages[p] = "" THEN "blank"
    ELSE "has_text"

\* ------------------------------------------------------------------ state
VARIABLES
    pdf_files,       \* the PDFs of the folder, in os.listdir order
    k,               \* position of the per-paper loop in pdf_files
    pc,              \* where process_papers is
    response,        \* the model response analyze_paper is working on
    analysis,        \* what the last call of analyze_paper returned
    analyses,        \* the collected records
    parsed_text,     \* PDFs whose text file exists in parsed_text/
    hist,            \* per processed PDF: what it held and what became of it
    events,          \* model calls and table writes, in the order they happened
    prior,           \* the two table files before the run
    analytical_csv,  \* analytical_papers_summary.csv
    cross_csv,       \* cross_comparison_matrix.csv
    paper_names,     \* row and column labels of the matrix
    matrix,          \* matrix[i][j], the comparison cells
    i,               \* outer index of the comparison loop
    j                \* inner index of the comparison loop

vars == <<pdf_files, k, pc, response, analysis, analyses, parsed_text, hist,
          events, prior, analytical_csv, cross_csv, paper_names, matrix, i, j>>

NameTable == <<"a.pdf", "b.pdf", "c.pdf", "d.pdf">>
FileNames == {NameTable[n] : n \in 1..MaxPdfs}

\* os.listdir gives each file once, in any order.
Listings ==
    {f \in UNION {[1..n -> FileNames] : n \in 0..MaxPdfs} :
        \A x, y \in DOMAIN f : x # y => f[x] # f[y]}

SamePaper == "Same paper."
ComparisonFailed == "Comparison failed."
NaN == "NaN"
\* the model's answer to a comparison prompt, cleaned
Explanations == {"explanation"}

Absent == [state |-> "absent", labels |-> <<>>, rows |-> <<>>]
Old == [state |-> "old", labels |-> <<>>, rows |-> <<>>]
Written(labels, rows) == [state |-> "written", labels |-> labels, rows |-> rows]

Event(kind, a, b, ok) == [kind |-> kind, a |-> a, b |-> b, ok |-> ok]

\* The dict of a record after `analysis["paper_name"] = paper_name`.
Record(paper_name, obj) ==
    [paper_name |-> paper_name,
     fields |-> [key \in DOMAIN obj \ {"paper_name"} |-> obj[key]]]

\* The two table files before the run: each absent or left by an earlier run.
PriorTables == [analytical : {Absent, Old}, cross : {Absent, Old}]

\* process_papers has not started: nothing is collected, called or written.
Start ==
    /\ k = 1
    /\ analysis = None
    /\ analyses = <<>>
    /\ parsed_text = {}
    /\ hist = <<>>
    /\ events = <<>>
    /\ analytical_csv = prior.analytical
    /\ cross_csv = prior.cross
    /\ paper_names = <<>>
    /\ matrix = <<>>
    /\ i = 0
    /\ j = 0

\* process_papers is entered (line 192).
Init ==
    /\ pdf_files \in Listings
    /\ prior \in PriorTables
    /\ pc = "papers"
    /\ response = NoCall
    /\ Start

\* ---------------------------------------------------------------- actions
\* One iteration of the per-paper loop, lines 194-204.
ProcessPaper ==
    /\ pc = "papers"
    /\ k <= Len(pdf_files)
    /\ \E doc \in Docs, can_save \in BOOLEAN, resp \in Responses :
         LET paper_name == pdf_files[k]
             text == parse_pdf(doc, can_save)
             called == ~IsEmptyText(text)
             result == IF called THEN analyze_paper(resp) ELSE None
         IN /\ parsed_text' = IF doc.readable /\ can_save
                              THEN parsed_text \cup {paper_name}
                              ELSE parsed_text
            /\ analysis' = IF called THEN result ELSE analysis
            /\ events' = IF called
                         THEN Append(events,
                                Event("summary", k, 0, resp.kind # "api_error"))
                         ELSE events
            /\ hist' = Append(hist, [doc |-> DocKind(doc),
                                     text_ok |-> text # <<>>,
                                     resp |-> IF called THEN resp.kind ELSE "no_call",
                                     returned |-> result # None])
            /\ IF called /\ Truthy(result)
               THEN IF result.t = "object"
                    THEN /\ analyses' = Append(analyses, Record(paper_name, result.obj))
                         /\ pc' = "papers"
                         /\ k' = k + 1
                    ELSE \* item assignment on a list or a str: TypeError
                         /\ analyses' = analyses
                         /\ pc' = "raised"
                         /\ k' = k
               ELSE /\ analyses' = analyses
                    /\ pc' = "papers"
                    /\ k' = k + 1
    /\ UNCHANGED <<pdf_files, response, prior, analytical_csv, cross_csv,
                   paper_names, matrix, i, j>>

\* The test of line 206 always taken.
AlwaysAnalyses(list) == TRUE

\* `if analyses:` of line 206
HasAnalyses(list) == list # <<>>

\* Line 207: save_analytical_csv(analyses).
SaveAnalytical ==
    /\ pc = "papers"
    /\ k > Len(pdf_files)
    /\ HasAnalyses(analyses)
    /\ analytical_csv' = Written(<<>>, analyses)
    /\ events' = Append(events, Event("save_analytical", 0, 0, TRUE))
    /\ pc' = "matrix"
    /\ UNCHANGED <<pdf_files, k, response, analysis, analyses, parsed_text, hist,
                   prior, cross_csv, paper_names, matrix, i, j>>

\* Line 210: nothing was analyzed.
NoPapers ==
    /\ pc = "papers"
    /\ k > Len(pdf_files)
    /\ ~HasAnalyses(analyses)
    /\ pc' = "done"
    /\ UNCHANGED <<pdf_files, k, response, analysis, analyses, parsed_text, hist,
                   events, prior, analytical_csv, cross_csv, paper_names, matrix,
                   i, j>>

\* Lines 145-146: the empty n x n frame labelled by the paper names.
StartMatrix ==
    /\ pc = "matrix"
    /\ paper_names' = [x \in 1..Len(analyses) |-> analyses[x].paper_name]
    /\ matrix' = [x \in 1..Len(analyses) |-> [y \in 1..Len(analyses) |-> NaN]]
    /\ i' = 1
    /\ j' = 1
    /\ pc' = "compare"
    /\ UNCHANGED <<pdf_files, k, response, analysis, analyses, parsed_text, hist,
                   events, prior, analytical_csv, cross_csv>>

\* The self-pair test never true.
NeverDiagonal(a, b) == FALSE

\* `if i == j:` of line 150
IsDiagonal(a, b) == a = b

\* The cell of a pair whose failed call leaves it unset.
CellUnsetOnFailure(ok, explanation) == IF ok THEN explanation ELSE NaN

\* Lines 166-176: the cell of a pair after its model call.
CellAfterCall(ok, explanation) == IF ok THEN explanation ELSE ComparisonFailed

\* The loops nested the other way round: a the inner index.
NextPairColumnFirst(a, b, n) ==
    IF a < n THEN <<a + 1, b>>
    ELSE IF b < n THEN <<1, b + 1>> ELSE <<n + 1, 1>>

\* The pair after (a, b) in the nested loops of lines 148-149; a = n + 1 once
\* both loops are over.
NextPair(a, b, n) == IF b < n THEN <<a, b + 1>> ELSE <<a + 1, 1>>

\* The loops taken to be over at any point.
LoopsOverAnywhere(a, b, n) == TRUE

\* Both loops of lines 148-149 are over: the outer one is exhausted.
LoopsOver(a, b, n) == a > n

\* One iteration of the inner loop, lines 149-176.
CompareCell ==
    /\ pc = "compare"
    /\ ~LoopsOver(i, j, Len(analyses))
    /\ \E ok \in BOOLEAN, explanation \in Explanations :
         IF IsDiagonal(i, j)
         THEN /\ matrix' = [matrix EXCEPT ![i][j] = SamePaper]
              /\ events' = events
         ELSE /\ matrix' = [matrix EXCEPT ![i][j] = CellAfterCall(ok, explanation)]
              /\ events' = Append(events, Event("compare", i, j, ok))
    /\ i' = NextPair(i, j, Len(analyses))[1]
    /\ j' = NextPair(i, j, Len(analyses))[2]
    /\ UNCHANGED <<pdf_files, k, pc, response, analysis, analyses, parsed_text,
                   hist, prior, analytical_csv, cross_csv, paper_names>>

\* Line 178: matrix.to_csv(CROSS_CSV), after the loops.
SaveMatrix ==
    /\ pc = "compare"
    /\ LoopsOver(i, j, Len(analyses))
    /\ cross_csv' = Written(paper_names, matrix)
    /\ events' = Append(events, Event("save_matrix", 0, 0, TRUE))
    /\ pc' = "done"
    /\ UNCHANGED <<pdf_files, k, response, analysis, analyses, parsed_text, hist,
                   prior, analytical_csv, paper_names, matrix, i, j>>

Next ==
    \/ ProcessPaper
    \/ SaveAnalytical
    \/ NoPapers
    \/ StartMatrix
    \/ CompareCell
    \/ SaveMatrix

Spec == Init /\ [][Next]_vars

\* ------------------------------------------------- analyze_paper on its own
Strings(maxlen) == UNION {[1..n -> Chars] : n \in 0..maxlen}

RECURSIVE Sum(_)
Sum(lens) == IF lens = <<>> THEN 0 ELSE Head(lens) + Sum(Tail(lens))

\* The lists of strings whose lengths are `lens`, in this order.
RECURSIVE ListsOfLengths(_)
ListsOfLengths(lens) ==
    IF lens = <<>> THEN {<<>>}
    ELSE {<<StrItem(s)>> \o rest :
             s \in [1..Head(lens) -> Chars], rest \in ListsOfLengths(Tail(lens))}

\* The lengths of the entries of a list of at most `entries` strings with at
\* most `chars` characters in all.
Shapes(entries, chars) ==
    {lens \in UNION {[1..m -> 0..MaxStrLen] : m \in 0..entries} : Sum(lens) <= chars}

\* A response that decodes to an object with this other_details.
DetailResponse(od) == Decoded(JsonObject(WithDetails(od)))

\* analyze_paper is called on a response that decodes to an object (line 113)
\* whose other_details is one string or a list of strings.
InitDetails ==
    /\ pdf_files = <<NameTable[1]>>
    /\ prior = [analytical |-> Absent, cross |-> Absent]
    /\ pc = "analyze"
    /\ \/ \E s \in Strings(MaxStrLen) : response = DetailResponse(StrField(s))
       \/ \E lens \in Shapes(MaxEntries, MaxChars) :
             \E list \in ListsOfLengths(lens) :
                response = DetailResponse(ListField(list))
    /\ Start

\* Lines 113-119: the response is post-processed and returned.
AnalyzePaper ==
    /\ pc = "analyze"
    /\ analysis' = analyze_paper(response)
    /\ pc' = "analyzed"
    /\ UNCHANGED <<pdf_files, k, response, analyses, parsed_text, hist, events,
                   prior, analytical_csv, cross_csv, paper_names, matrix, i, j>>

NextDetails == AnalyzePaper

SpecDetails == InitDetails /\ [][NextDetails]_vars

\* ------------------------------------------------------------------ claims
Lowest(S) == CHOOSE x \in S : \A y \in S : x <= y
Highest(S) == CHOOSE x \in S : \A y \in S : x >= y

\* d without its longest prefix and its longest suffix made of `chars`.
Trimmed(d, chars) ==
    LET keep == {x \in 1..Len(d) : d[x] \notin chars}
    IN IF keep = {} THEN <<>> ELSE SubSeq(d, Lowest(keep), Highest(keep))

\* What may be left of entry d when only leading characters of `lead` and
\* trailing whitespace are removed from it.
LeadStripped(d, lead) ==
    LET solid == {x \in 1..Len(d) : d[x] \notin Whitespace}
        upto == IF solid = {} THEN 0 ELSE Highest(solid)
    IN {SubSeq(d, from, upto) :
           from \in {x \in 1..(Len(d) + 1) : \A y \in 1..(x - 1) : d[y] \in lead}}

RECURSIVE Lines(_)
Lines(list) ==
    IF list = <<>> THEN <<>>
    ELSE IF Len(list) = 1 THEN list[1]
    ELSE list[1] \o <<"\n">> \o Lines(Tail(list))

\* The record analyze_paper returns keeps the response's fields, all but
\* other_details unchanged.
OtherFieldsKept ==
    /\ analysis.t = "object"
    /\ DOMAIN analysis.obj = DOMAIN response.json.obj
    /\ \A key \in DOMAIN analysis.obj \ {"other_details"} :
          analysis.obj[key] = response.json.obj[key]

\* C9 as stated: a list other_details is returned as its entries joined by
\* newlines in their order, each without leading bullet, dash and space
\* characters and without surrounding whitespace and with nothing else removed
\* (whichever of its leading characters are taken to be stray); a string
\* other_details is returned unchanged, and so is every other field.
C9_AsClaimed ==
    pc = "analyzed" =>
        LET od == response.json.obj["other_details"]
            n == Len(od.items)
            left == [x \in 1..n |->
                       LeadStripped(od.items[x].s, {"U+2022", "-"} \cup Whitespace)]
        IN
        /\ OtherFieldsKept
        /\ od.t = "str" => analysis.obj["other_details"] = od
        /\ od.t = "list" =>
              \E f \in [1..n -> UNION {left[x] : x \in 1..n}] :
                 /\ \A x \in 1..n : f[x] \in left[x]
                 /\ analysis.obj["other_details"] = StrField(Lines(f))

\* C9 amended: a list other_details of strings is returned as its entries
\* joined by newlines in their order, each without the dashes and spaces at
\* BOTH its ends and then without the whitespace at both its ends (a bullet
\* character is kept, a trailing dash is removed); a string other_details is
\* returned unchanged, and so is every other field.
C9_DetailsJoined ==
    pc = "analyzed" =>
        LET od == response.json.obj["other_details"] IN
        /\ OtherFieldsKept
        /\ od.t = "str" => analysis.obj["other_details"] = od
        /\ od.t = "list" =>
              analysis.obj["other_details"] =
                 StrField(Lines([x \in 1..Len(od.items) |->
                    Trimmed(Trimmed(od.items[x].s, DashSpace), Whitespace)]))

\* ["-a", "a-"] has been post-processed to "a\na".
C9_Witness ==
    /\ pc = "analyzed"
    /\ response.json.obj["other_details"] =
          ListField(<<StrItem(<<"-", "a">>), StrItem(<<"a", "-">>)>>)
    /\ analysis.obj["other_details"] = StrField(<<"a", "\n", "a">>)

\* ---------------------------------------------------- claims on the run
Kinds(which) == SelectSeq(events, LAMBDA e : e.kind \in which)
ComparePairs ==
    LET calls == Kinds({"compare"})
    IN [x \in 1..Len(calls) |-> <<calls[x].a, calls[x].b>>]
RecordsOf(name) == {r \in 1..Len(analyses) : analyses[r].paper_name = name}
Filled(n) == \A x, y \in 1..n : matrix[x][y] # NaN

\* C1: every record is the record of exactly one input PDF, named after it,
\* no two records share a name, that PDF's parse_pdf text was not empty and
\* its model response was parsed and returned; so there are at most as many
\* records as PDFs.
C1_RecordsMatchPdfs ==
    /\ Len(analyses) <= Len(pdf_files)
    /\ \A r \in 1..Len(analyses) :
          LET from == {p \in 1..Len(pdf_files) :
                          pdf_files[p] = analyses[r].paper_name}
          IN /\ Cardinality(from) = 1
             /\ RecordsOf(analyses[r].paper_name) = {r}
             /\ \A p \in from :
                   /\ p <= Len(hist)
                   /\ hist[p].text_ok
                   /\ hist[p].resp = "json"
                   /\ hist[p].returned

\* A run of two PDFs ended with one record: the other PDF gave no text.
C1_Witness ==
    /\ pc = "done"
    /\ Len(pdf_files) = 2
    /\ Len(analyses) = 1
    /\ \E p \in 1..2 : ~hist[p].text_ok
    /\ \E p \in 1..2 : hist[p].returned /\ pdf_files[p] = analyses[1].paper_name

\* C2 as stated: whatever the collaborators do, no exception leaves
\* process_papers, and when it is done every PDF was gone through.
C2_AsClaimed ==
    /\ pc # "raised"
    /\ pc = "done" => k > Len(pdf_files)

\* C3: when the comparison is over the matrix has n x n cells, all filled,
\* its diagonal cells equal "Same paper.", and no model call was made for a
\* self-pair.
C3_MatrixComplete ==
    /\ \A x \in 1..Len(events) :
          events[x].kind = "compare" => events[x].a # events[x].b
    /\ pc = "compare" =>
          \A x \in 1..Len(matrix) : matrix[x][x] \in {NaN, SamePaper}
    /\ (pc = "done" /\ analyses # <<>>) =>
          LET n == Len(analyses) IN
          /\ Len(matrix) = n
          /\ \A x \in 1..n : Len(matrix[x]) = n
          /\ Filled(n)
          /\ \A x \in 1..n : matrix[x][x] = SamePaper
          /\ cross_csv = Written(paper_names, matrix)

\* The 2 x 2 matrix of two records is complete.
C3_Witness ==
    /\ pc = "done"
    /\ Len(analyses) = 2
    /\ matrix[1][1] = SamePaper /\ matrix[2][2] = SamePaper
    /\ matrix[1][2] = "explanation" /\ matrix[2][1] = "explanation"

\* C4: a comparison call that raises leaves "Comparison failed." in its own
\* cell, changes no other cell, lets no exception out, and the loop goes on:
\* the run is only done with every cell filled, and a filled cell is never
\* changed again.
C4_FailureIsLocal ==
    [][ pc = "compare" =>
          LET n == Len(analyses) IN
          /\ pc' \in {"compare", "done"}
          /\ pc' = "done" => Filled(n)
          /\ \A x, y \in 1..n : matrix[x][y] # NaN => matrix'[x][y] = matrix[x][y]
          /\ Len(Kinds({"compare"})') = Len(Kinds({"compare"})) + 1 =>
                LET e == events'[Len(events')] IN
                /\ e.a = i /\ e.b = j
                /\ \A x, y \in 1..n : <<x, y>> # <<i, j>> => matrix'[x][y] = matrix[x][y]
                /\ ~e.ok => matrix'[i][j] = ComparisonFailed
                /\ e.ok => matrix'[i][j] \in Explanations
                /\ pc' = "compare"
      ]_vars

\* Pair (1, 2) failed and the later pair (2, 1) was still answered.
C4_Witness ==
    /\ pc = "done"
    /\ Len(analyses) = 2
    /\ matrix[1][2] = ComparisonFailed
    /\ matrix[2][1] = "explanation"
    /\ matrix[1][1] = SamePaper /\ matrix[2][2] = SamePaper

\* C5: when the per-paper loop ends with no record, neither table is written
\* (both files are as they were before the run) and no comparison call is made.
C5_NothingWritten ==
    (k > Len(pdf_files) /\ analyses = <<>>) =>
        /\ analytical_csv = prior.analytical
        /\ cross_csv = prior.cross
        /\ Kinds({"compare", "save_analytical", "save_matrix"}) = <<>>

\* Two PDFs were gone through, one of them summarized in vain, and the run
\* ended with the old tables untouched.
C5_Witness ==
    /\ pc = "done"
    /\ analyses = <<>>
    /\ Len(pdf_files) = 2
    /\ Kinds({"summary"}) # <<>>
    /\ prior.analytical = Old /\ analytical_csv = Old
    /\ prior.cross = Old /\ cross_csv = Old

\* C6 as stated: a PDF that cannot be opened, has no pages or has only pages
\* without text is skipped: no summarizer call and no record for it.
C6_AsClaimed ==
    \A p \in 1..Len(hist) :
        hist[p].doc \in {"unreadable", "no_pages", "blank"} =>
            /\ \A x \in 1..Len(events) :
                  ~(events[x].kind = "summary" /\ events[x].a = p)
            /\ RecordsOf(pdf_files[p]) = {}

\* C7 as stated: a summarized paper has a record exactly when its response
\* decoded as JSON.
C7_AsClaimed ==
    \A p \in 1..Len(hist) :
        hist[p].resp # "no_call" =>
            (hist[p].resp = "json" <=> RecordsOf(pdf_files[p]) # {})

OrderedPairs(n) ==
    LET all == [t \in 1..(n * n) |-> <<((t - 1) \div n) + 1, ((t - 1) % n) + 1>>]
    IN SelectSeq(all, LAMBDA q : q[1] # q[2])

\* C10: the comparison calls are the ordered pairs (a, b), a # b, each once,
\* in nested-loop order with a the outer index: n*n - n calls when the
\* comparison is over, a failed one not made again.
C10_CallsInLoopOrder ==
    LET n == Len(analyses)
        made == ComparePairs
    IN /\ Len(made) <= n * n - n
       /\ made = SubSeq(OrderedPairs(n), 1, Len(made))
       /\ (pc = "done" /\ n > 0) => Len(made) = n * n - n

\* Two records: (1, 2) was asked and failed, then (2, 1) was asked, and
\* nothing else.
C10_Witness ==
    /\ pc = "done"
    /\ Len(analyses) = 2
    /\ Len(Kinds({"compare"})) = 2
    /\ ComparePairs = <<(<<1, 2>>), (<<2, 1>>)>>
    /\ ~Kinds({"compare"})[1].ok

====
